---- MODULE Spec2Model ----
(***************************************************************************)
(* webhook.py: one invocation reads one GitHub webhook payload, classifies *)
(* it, filters it (blacklists, collaborator permission, whitelists),       *)
(* renders it and posts it to one of two Discord webhooks.                 *)
(***************************************************************************)
EXTENDS Integers, Sequences, FiniteSets, TLC

VARIABLES pc, file, event, event_type, auth, is_staff, lookups, rendered,
          sent, responses, examined, log, exc, exit_code

vars == <<pc, file, event, event_type, auth, is_staff, lookups, rendered,
          sent, responses, examined, log, exc, exit_code>>

\* Longest list of per-recipient responses one webhook.execute() returns.
MaxResponses == 2

(***************************************************************************)
(* EventType and EventTypeGroup                                            *)
(***************************************************************************)
EventType ==
    { "UNKNOWN", "COMMIT_COMMENT",
      "ISSUE_COMMENT_CREATED", "ISSUE_COMMENT_EDITED", "ISSUE_COMMENT_DELETED",
      "ISSUE_OPENED", "ISSUE_EDITED", "ISSUE_DELETED", "ISSUE_PINNED",
      "ISSUE_UNPINNED", "ISSUE_CLOSED", "ISSUE_REOPENED", "ISSUE_ASSIGNED",
      "ISSUE_UNASSIGNED", "ISSUE_LABELED", "ISSUE_UNLABELED", "ISSUE_LOCKED",
      "ISSUE_UNLOCKED", "ISSUE_TRANSFERRED", "ISSUE_MILESTONED",
      "ISSUE_DEMILESTONED",
      "PR_OPENED", "PR_CLOSED", "PR_REOPENED", "PR_EDITED", "PR_ASSIGNED",
      "PR_UNASSIGNED", "PR_REVIEW_REQUESTED", "PR_REVIEW_REQUEST_REMOVED",
      "PR_LABELED", "PR_UNLABELED", "PR_SYNCHRONIZE", "PR_READY_FOR_REVIEW",
      "PR_CONVERTED_TO_DRAFT", "PR_LOCKED", "PR_UNLOCKED",
      "PR_AUTO_MERGE_ENABLED", "PR_AUTO_MERGE_DISABLED", "PR_MILESTONED",
      "PR_DEMILESTONED",
      "PR_REVIEW_SUBMITTED", "PR_REVIEW_EDITED", "PR_REVIEW_DISMISSED",
      "PR_REVIEW_COMMENT_CREATED", "PR_REVIEW_COMMENT_EDITED",
      "PR_REVIEW_COMMENT_DELETED" }

\* EventTypeGroup with PR_REVIEW_SUBMITTED listed in PULL_REQUEST as well.
EventTypeGroup_dup ==
    [ COMMIT_COMMENT |-> { "COMMIT_COMMENT" },
      ISSUE_COMMENT  |-> { "ISSUE_COMMENT_CREATED", "ISSUE_COMMENT_EDITED",
                           "ISSUE_COMMENT_DELETED" },
      ISSUE          |-> { "ISSUE_OPENED", "ISSUE_EDITED", "ISSUE_DELETED",
                           "ISSUE_PINNED", "ISSUE_UNPINNED", "ISSUE_CLOSED",
                           "ISSUE_REOPENED", "ISSUE_ASSIGNED",
                           "ISSUE_UNASSIGNED", "ISSUE_LABELED",
                           "ISSUE_UNLABELED", "ISSUE_LOCKED", "ISSUE_UNLOCKED",
                           "ISSUE_TRANSFERRED", "ISSUE_MILESTONED",
                           "ISSUE_DEMILESTONED" },
      PULL_REQUEST   |-> { "PR_OPENED", "PR_CLOSED", "PR_REOPENED",
                           "PR_EDITED", "PR_ASSIGNED", "PR_UNASSIGNED",
                           "PR_REVIEW_REQUESTED", "PR_REVIEW_REQUEST_REMOVED",
                           "PR_LABELED", "PR_UNLABELED", "PR_SYNCHRONIZE",
                           "PR_READY_FOR_REVIEW", "PR_CONVERTED_TO_DRAFT",
                           "PR_LOCKED", "PR_UNLOCKED", "PR_AUTO_MERGE_ENABLED",
                           "PR_AUTO_MERGE_DISABLED", "PR_MILESTONED",
                           "PR_DEMILESTONED", "PR_REVIEW_SUBMITTED" },
      PULL_REQUEST_REVIEW |-> { "PR_REVIEW_SUBMITTED", "PR_REVIEW_EDITED",
                                "PR_REVIEW_DISMISSED" },
      PULL_REQUEST_REVIEW_COMMENT |-> { "PR_REVIEW_COMMENT_CREATED",
                                        "PR_REVIEW_COMMENT_EDITED",
                                        "PR_REVIEW_COMMENT_DELETED" } ]

EventTypeGroup ==
    [ COMMIT_COMMENT |-> { "COMMIT_COMMENT" },
      ISSUE_COMMENT  |-> { "ISSUE_COMMENT_CREATED", "ISSUE_COMMENT_EDITED",
                           "ISSUE_COMMENT_DELETED" },
      ISSUE          |-> { "ISSUE_OPENED", "ISSUE_EDITED", "ISSUE_DELETED",
                           "ISSUE_PINNED", "ISSUE_UNPINNED", "ISSUE_CLOSED",
                           "ISSUE_REOPENED", "ISSUE_ASSIGNED",
                           "ISSUE_UNASSIGNED", "ISSUE_LABELED",
                           "ISSUE_UNLABELED", "ISSUE_LOCKED", "ISSUE_UNLOCKED",
                           "ISSUE_TRANSFERRED", "ISSUE_MILESTONED",
                           "ISSUE_DEMILESTONED" },
      PULL_REQUEST   |-> { "PR_OPENED", "PR_CLOSED", "PR_REOPENED",
                           "PR_EDITED", "PR_ASSIGNED", "PR_UNASSIGNED",
                           "PR_REVIEW_REQUESTED", "PR_REVIEW_REQUEST_REMOVED",
                           "PR_LABELED", "PR_UNLABELED", "PR_SYNCHRONIZE",
                           "PR_READY_FOR_REVIEW", "PR_CONVERTED_TO_DRAFT",
                           "PR_LOCKED", "PR_UNLOCKED", "PR_AUTO_MERGE_ENABLED",
                           "PR_AUTO_MERGE_DISABLED", "PR_MILESTONED",
                           "PR_DEMILESTONED" },
      PULL_REQUEST_REVIEW |-> { "PR_REVIEW_SUBMITTED", "PR_REVIEW_EDITED",
                                "PR_REVIEW_DISMISSED" },
      PULL_REQUEST_REVIEW_COMMENT |-> { "PR_REVIEW_COMMENT_CREATED",
                                        "PR_REVIEW_COMMENT_EDITED",
                                        "PR_REVIEW_COMMENT_DELETED" } ]

(***************************************************************************)
(* Whitelists and blacklists                                               *)
(***************************************************************************)
staff_event_filter ==
    { "ISSUE_OPENED", "ISSUE_DELETED", "ISSUE_CLOSED", "ISSUE_REOPENED",
      "PR_OPENED", "PR_CLOSED", "PR_REOPENED", "PR_READY_FOR_REVIEW",
      "PR_REVIEW_SUBMITTED" }

\* external_event_filter that also lets UNKNOWN through.
external_event_filter_unknown ==
    { "UNKNOWN", "COMMIT_COMMENT", "ISSUE_COMMENT_CREATED", "ISSUE_OPENED",
      "ISSUE_DELETED", "ISSUE_CLOSED", "ISSUE_REOPENED", "PR_OPENED",
      "PR_CLOSED", "PR_REOPENED", "PR_READY_FOR_REVIEW",
      "PR_REVIEW_SUBMITTED", "PR_REVIEW_COMMENT_CREATED" }

external_event_filter ==
    { "COMMIT_COMMENT", "ISSUE_COMMENT_CREATED", "ISSUE_OPENED",
      "ISSUE_DELETED", "ISSUE_CLOSED", "ISSUE_REOPENED", "PR_OPENED",
      "PR_CLOSED", "PR_REOPENED", "PR_READY_FOR_REVIEW",
      "PR_REVIEW_SUBMITTED", "PR_REVIEW_COMMENT_CREATED" }

user_filter == { "github-actions[bot]" }

repo_filter == { "berty/bugs" }

(***************************************************************************)
(* Payloads.  A payload is the set of top-level keys it carries, the value *)
(* of 'action', what 'sender' and 'repository' hold, whether 'comment'     *)
(* carries 'commit_id', and whether the nested objects carry every         *)
(* sub-field parse_event reads (html_url, avatar_url, number, title, body, *)
(* path, diff_hunk).                                                       *)
(***************************************************************************)
NoAction == "<no action key>"

Actions ==
    { "created", "edited", "deleted", "opened", "pinned", "unpinned",
      "closed", "reopened", "assigned", "unassigned", "labeled", "unlabeled",
      "locked", "unlocked", "transferred", "milestoned", "demilestoned",
      "review_requested", "review_request_removed", "ready_for_review",
      "converted_to_draft", "synchronize", "auto_merge_enabled",
      "auto_merge_disabled", "submitted", "dismissed", "approved" }

Absent  == "<absent>"
NoField == "<field missing>"

Payloads ==
    [ issue        : BOOLEAN,
      pull_request : BOOLEAN,
      review       : BOOLEAN,
      number       : BOOLEAN,
      comment      : { Absent, "plain", "commit_id" },
      action       : Actions \cup { NoAction },
      sender       : { Absent, NoField, "github-actions[bot]", "alice" },
      repository   : { Absent, NoField, "berty/bugs", "berty/berty" },
      nested       : BOOLEAN ]

NoPayload ==
    [ issue |-> FALSE, pull_request |-> FALSE, review |-> FALSE,
      number |-> FALSE, comment |-> Absent, action |-> NoAction,
      sender |-> Absent, repository |-> Absent, nested |-> FALSE ]

FileStates == { "ok", "no argument", "unreadable", "invalid json" }

(***************************************************************************)
(* get_event_type                                                          *)
(***************************************************************************)
KeyError == "KeyError"

issue_comment_actions ==
    [ created |-> "ISSUE_COMMENT_CREATED", edited |-> "ISSUE_COMMENT_EDITED",
      deleted |-> "ISSUE_COMMENT_DELETED" ]

issue_actions ==
    [ opened |-> "ISSUE_OPENED", edited |-> "ISSUE_EDITED",
      deleted |-> "ISSUE_DELETED", pinned |-> "ISSUE_PINNED",
      unpinned |-> "ISSUE_UNPINNED", closed |-> "ISSUE_CLOSED",
      reopened |-> "ISSUE_REOPENED", assigned |-> "ISSUE_ASSIGNED",
      unassigned |-> "ISSUE_UNASSIGNED", labeled |-> "ISSUE_LABELED",
      unlabeled |-> "ISSUE_UNLABELED", locked |-> "ISSUE_LOCKED",
      unlocked |-> "ISSUE_UNLOCKED", transferred |-> "ISSUE_TRANSFERRED",
      milestoned |-> "ISSUE_MILESTONED",
      demilestoned |-> "ISSUE_DEMILESTONED" ]

pr_review_comment_actions ==
    [ created |-> "PR_REVIEW_COMMENT_CREATED",
      edited |-> "PR_REVIEW_COMMENT_EDITED",
      deleted |-> "PR_REVIEW_COMMENT_DELETED" ]

pr_actions ==
    [ opened |-> "PR_OPENED", edited |-> "PR_EDITED", closed |-> "PR_CLOSED",
      assigned |-> "PR_ASSIGNED", unassigned |-> "PR_UNASSIGNED",
      review_requested |-> "PR_REVIEW_REQUESTED",
      review_request_removed |-> "PR_REVIEW_REQUEST_REMOVED",
      ready_for_review |-> "PR_READY_FOR_REVIEW",
      converted_to_draft |-> "PR_CONVERTED_TO_DRAFT",
      labeled |-> "PR_LABELED", unlabeled |-> "PR_UNLABELED",
      synchronize |-> "PR_SYNCHRONIZE",
      auto_merge_enabled |-> "PR_AUTO_MERGE_ENABLED",
      auto_merge_disabled |-> "PR_AUTO_MERGE_DISABLED",
      locked |-> "PR_LOCKED", unlocked |-> "PR_UNLOCKED",
      reopened |-> "PR_REOPENED" ]

pr_review_actions ==
    [ submitted |-> "PR_REVIEW_SUBMITTED", edited |-> "PR_REVIEW_EDITED",
      dismissed |-> "PR_REVIEW_DISMISSED" ]

\* The chain of `if event['action'] == ...: return ...` of one branch: the
\* first comparison already fails with KeyError when 'action' is missing.
by_action(table, e) ==
    IF e.action = NoAction THEN KeyError
    ELSE IF e.action \in DOMAIN table THEN table[e.action]
    ELSE "UNKNOWN"

\* pull_request_branch whose last test is a plain else instead of
\* `elif 'review' in event`.
pull_request_branch_else(e) ==
    IF e.comment # Absent THEN by_action(pr_review_comment_actions, e)
    ELSE IF e.number THEN by_action(pr_actions, e)
    ELSE by_action(pr_review_actions, e)

pull_request_branch(e) ==
    IF e.comment # Absent THEN by_action(pr_review_comment_actions, e)
    ELSE IF e.number THEN by_action(pr_actions, e)
    ELSE IF e.review THEN by_action(pr_review_actions, e)
    ELSE "UNKNOWN"

get_event_type(e) ==
    IF e.issue THEN
        IF e.comment # Absent THEN by_action(issue_comment_actions, e)
        ELSE by_action(issue_actions, e)
    ELSE IF e.pull_request THEN pull_request_branch(e)
    ELSE IF e.comment = "commit_id" THEN
        by_action([created |-> "COMMIT_COMMENT"], e)
    ELSE "UNKNOWN"

(***************************************************************************)
(* parse_event                                                             *)
(***************************************************************************)
\* The elif chain over EventTypeGroup.X.value: the first list holding the
\* type selects the template; a type in no list gets no title at all.
group_order ==
    << "COMMIT_COMMENT", "ISSUE_COMMENT", "ISSUE", "PULL_REQUEST",
       "PULL_REQUEST_REVIEW", "PULL_REQUEST_REVIEW_COMMENT" >>

template_of(t) ==
    LET hits == { i \in DOMAIN group_order : t \in EventTypeGroup[group_order[i]] }
    IN  IF hits = {} THEN "none"
        ELSE group_order[CHOOSE i \in hits : \A j \in hits : i <= j]

\* Top-level keys each template subscripts, besides 'sender' and 'action'
\* which the common part reads.
template_keys ==
    [ none                        |-> {},
      COMMIT_COMMENT              |-> { "repository", "comment", "commit_id" },
      ISSUE_COMMENT               |-> { "repository", "issue", "comment" },
      ISSUE                       |-> { "repository", "issue" },
      PULL_REQUEST                |-> { "repository", "pull_request" },
      PULL_REQUEST_REVIEW         |-> { "repository", "pull_request", "review" },
      PULL_REQUEST_REVIEW_COMMENT |-> { "repository", "pull_request", "comment" } ]

has_key(e, k) ==
    CASE k = "issue"        -> e.issue
      [] k = "pull_request" -> e.pull_request
      [] k = "review"       -> e.review
      [] k = "number"       -> e.number
      [] k = "comment"      -> e.comment # Absent
      [] k = "commit_id"    -> e.comment = "commit_id"
      [] k = "action"       -> e.action # NoAction
      [] k = "sender"       -> e.sender # Absent
      [] k = "repository"   -> e.repository # Absent

keys_read(t) == { "sender", "action" } \cup template_keys[template_of(t)]

parse_event(t, e) ==
    IF \E k \in keys_read(t) : ~has_key(e, k) THEN "KeyError: top-level key"
    ELSE IF ~e.nested \/ e.sender = NoField \/ e.repository = NoField
         THEN "KeyError: nested field"
    ELSE "embed"

(***************************************************************************)
(* is_author_staff                                                         *)
(***************************************************************************)
AuthStatuses == { 200, 201, 204, 404, 500 }

AuthBodies ==
    { "write", "admin", "read", "none", "no permission field", "not json" }

AuthAnswers == [ status : AuthStatuses, body : AuthBodies ]

NoAnswer == [ status |-> 0, body |-> "<no lookup>" ]

\* is_author_staff that maps a failed lookup to "not staff".
is_author_staff_default(resp) ==
    IF resp.status \notin { 200, 204 } THEN "False"
    ELSE IF resp.body \in { "write", "admin" } THEN "True"
    ELSE "False"

is_author_staff(resp) ==
    IF resp.status \notin { 200, 204 } THEN "Exception"
    ELSE IF resp.body \in { "no permission field", "not json" } THEN "Exception"
    ELSE IF resp.body \in { "write", "admin" } THEN "True"
    ELSE "False"

(***************************************************************************)
(* send_to_discord                                                         *)
(***************************************************************************)
DeliveryStatuses == { 200, 204, 404, 500 }

StatusLists ==
    UNION { [ 1..n -> DeliveryStatuses ] : n \in 1..MaxResponses }

\* What webhook.execute() returns: one response, or a list of them.
ExecuteResults ==
    [ is_list : { FALSE }, items : [ 1..1 -> DeliveryStatuses ] ]
        \cup [ is_list : { TRUE }, items : StatusLists ]

\* `if type(responses) is not list: responses = [responses]`
as_list(result) ==
    IF result.is_list THEN result.items ELSE << result.items[1] >>

accepted_statuses == { 200, 204 }

\* The loop body without its `return`.
after_response_continue(status) == "loop"

\* Where the for loop goes after looking at one response.
after_response(status) ==
    IF status \notin accepted_statuses THEN "returned" ELSE "loop"

(***************************************************************************)
(* handle_event's whitelist test                                           *)
(***************************************************************************)
\* route that tests the external whitelist first.
route_external_first(staff, t) ==
    IF t \in external_event_filter THEN "external"
    ELSE IF staff = "True" /\ t \in staff_event_filter THEN "staff"
    ELSE "skip"

route(staff, t) ==
    IF staff = "True" /\ t \in staff_event_filter THEN "staff"
    ELSE IF staff # "True" /\ t \in external_event_filter THEN "external"
    ELSE "skip"

(***************************************************************************)
(* State machine                                                           *)
(***************************************************************************)
Init ==
    /\ pc = "main"
    /\ \/ file = "ok" /\ event \in Payloads
       \/ file \in FileStates \ { "ok" } /\ event = NoPayload
    /\ event_type = "unset"
    /\ auth = NoAnswer
    /\ is_staff = "unset"
    /\ lookups = 0
    /\ rendered = << >>
    /\ sent = << >>
    /\ responses = << >>
    /\ examined = 0
    /\ log = << >>
    /\ exc = "none"
    /\ exit_code = -1

\* __main__, lines 468-469: outside the try block.
Main_ReadPayload ==
    /\ pc = "main"
    /\ IF file = "ok"
       THEN /\ pc' = "get_event_type"
            /\ UNCHANGED <<exc, exit_code>>
       ELSE /\ pc' = "exited"
            /\ exc' = file
            /\ exit_code' = 1
    /\ UNCHANGED <<file, event, event_type, auth, is_staff, lookups, rendered,
                   sent, responses, examined, log>>

\* handle_event line 443.
HandleEvent_Classify ==
    /\ pc = "get_event_type"
    /\ LET t == get_event_type(event)
       IN  IF t = KeyError
           THEN /\ pc' = "raised"
                /\ exc' = "KeyError: action"
                /\ UNCHANGED <<event_type, log>>
           ELSE /\ pc' = "blacklist"
                /\ event_type' = t
                /\ log' = IF t = "UNKNOWN"
                          THEN Append(log, "warning: UNKNOWN event received")
                          ELSE log
                /\ UNCHANGED exc
    /\ UNCHANGED <<file, event, auth, is_staff, lookups, rendered, sent,
                   responses, examined, exit_code>>

\* handle_event lines 446-451.
HandleEvent_Blacklist ==
    /\ pc = "blacklist"
    /\ IF event.sender \in { Absent, NoField }
       THEN /\ pc' = "raised"
            /\ exc' = "KeyError: sender"
            /\ UNCHANGED log
       ELSE IF event.sender \in user_filter
       THEN /\ pc' = "returned"
            /\ log' = Append(log, "info: user is in blacklist")
            /\ UNCHANGED exc
       ELSE IF event.repository \in { Absent, NoField }
       THEN /\ pc' = "raised"
            /\ exc' = "KeyError: repository"
            /\ UNCHANGED log
       ELSE IF event.repository \in repo_filter
       THEN /\ pc' = "returned"
            /\ log' = Append(log, "info: repo is in blacklist")
            /\ UNCHANGED exc
       ELSE /\ pc' = "is_author_staff"
            /\ UNCHANGED <<log, exc>>
    /\ UNCHANGED <<file, event, event_type, auth, is_staff, lookups, rendered,
                   sent, responses, examined, exit_code>>

\* handle_event line 454: the request either fails to connect or answers.
HandleEvent_IsAuthorStaff ==
    /\ pc = "is_author_staff"
    /\ lookups' = lookups + 1
    /\ \/ /\ pc' = "raised"
          /\ exc' = "ConnectionError"
          /\ UNCHANGED <<auth, is_staff>>
       \/ \E resp \in AuthAnswers :
            /\ auth' = resp
            /\ LET r == is_author_staff(resp)
               IN  IF r = "Exception"
                   THEN /\ pc' = "raised"
                        /\ exc' = "Exception: author permission request"
                        /\ UNCHANGED is_staff
                   ELSE /\ pc' = "route"
                        /\ is_staff' = r
                        /\ UNCHANGED exc
    /\ UNCHANGED <<file, event, event_type, rendered, sent, responses,
                   examined, log, exit_code>>

\* handle_event lines 457-464, up to the call of send_to_discord.
HandleEvent_Route ==
    /\ pc = "route"
    /\ LET ch == route(is_staff, event_type)
       IN  IF ch = "skip"
           THEN /\ pc' = "returned"
                /\ log' = Append(log, IF is_staff = "True"
                                      THEN "info: skipped for staff user"
                                      ELSE "info: skipped for external user")
                /\ UNCHANGED <<rendered, sent, exc>>
           ELSE LET r == parse_event(event_type, event)
                IN  /\ rendered' = Append(rendered,
                           [ type |-> event_type, channel |-> ch,
                             result |-> r ])
                    /\ IF r = "embed"
                       THEN /\ pc' = "execute"
                            /\ sent' = Append(sent, ch)
                            /\ UNCHANGED exc
                       ELSE /\ pc' = "raised"
                            /\ exc' = r
                            /\ UNCHANGED sent
                    /\ UNCHANGED log
    /\ UNCHANGED <<file, event, event_type, auth, is_staff, lookups,
                   responses, examined, exit_code>>

\* send_to_discord lines 421-425.
SendToDiscord_Execute ==
    /\ pc = "execute"
    /\ \/ /\ pc' = "raised"
          /\ exc' = "ConnectionError"
          /\ UNCHANGED responses
       \/ \E result \in ExecuteResults :
            /\ responses' = as_list(result)
            /\ pc' = "loop"
            /\ UNCHANGED exc
    /\ examined' = 0
    /\ UNCHANGED <<file, event, event_type, auth, is_staff, lookups, rendered,
                   sent, log, exit_code>>

\* send_to_discord lines 427-437: one iteration of the for loop.
SendToDiscord_Loop ==
    /\ pc = "loop"
    /\ examined < Len(responses)
    /\ examined' = examined + 1
    /\ log' = IF responses[examined + 1] \notin accepted_statuses
              THEN Append(log, "error: executing webhook failed")
              ELSE log
    /\ pc' = after_response(responses[examined + 1])
    /\ UNCHANGED <<file, event, event_type, auth, is_staff, lookups, rendered,
                   sent, responses, exc, exit_code>>

\* send_to_discord line 439.
SendToDiscord_Success ==
    /\ pc = "loop"
    /\ examined = Len(responses)
    /\ log' = Append(log, "info: event sent to discord successfully")
    /\ pc' = "returned"
    /\ UNCHANGED <<file, event, event_type, auth, is_staff, lookups, rendered,
                   sent, responses, examined, exc, exit_code>>

\* __main__ lines 473-474.
Main_Except ==
    /\ pc = "raised"
    /\ log' = Append(log, "error: can not handle event")
    /\ exit_code' = 0
    /\ pc' = "exited"
    /\ UNCHANGED <<file, event, event_type, auth, is_staff, lookups, rendered,
                   sent, responses, examined, exc>>

\* __main__: handle_event returned, the script ends.
Main_Exit ==
    /\ pc = "returned"
    /\ exit_code' = 0
    /\ pc' = "exited"
    /\ UNCHANGED <<file, event, event_type, auth, is_staff, lookups, rendered,
                   sent, responses, examined, log, exc>>

Next ==
    \/ Main_ReadPayload
    \/ HandleEvent_Classify
    \/ HandleEvent_Blacklist
    \/ HandleEvent_IsAuthorStaff
    \/ HandleEvent_Route
    \/ SendToDiscord_Execute
    \/ SendToDiscord_Loop
    \/ SendToDiscord_Success
    \/ Main_Except
    \/ Main_Exit

Spec == Init /\ [][Next]_vars

TypeOK ==
    /\ pc \in { "main", "get_event_type", "blacklist", "is_author_staff",
                "route", "execute", "loop", "raised", "returned", "exited" }
    /\ file \in FileStates
    /\ event \in Payloads
    /\ event_type \in EventType \cup { "unset" }
    /\ is_staff \in { "unset", "True", "False" }
    /\ lookups \in 0..1
    /\ examined \in 0..Len(responses)
    /\ exit_code \in { -1, 0, 1 }

(***************************************************************************)
(* Properties                                                              *)
(***************************************************************************)
InLog(m) == \E i \in DOMAIN log : log[i] = m

Count(m) == Cardinality({ i \in DOMAIN log : log[i] = m })

Handled == pc = "exited" /\ file = "ok"

Blacklisted(e) ==
    \/ e.sender \in { "github-actions[bot]" }
    \/ /\ e.sender \notin { "github-actions[bot]", Absent, NoField }
       /\ e.repository \in { "berty/bugs" }

\* C1: an event whose sender.login is in the actor blacklist, or whose
\* sender is not but whose repository.full_name is in the repository
\* blacklist, ends handling in a drop (the blacklist skip is logged and
\* nothing was raised), with no authorization lookup and no delivery call.
C1_BlacklistedEventIsDropped ==
    (Handled /\ Blacklisted(event)) =>
        /\ lookups = 0
        /\ sent = << >>
        /\ rendered = << >>
        /\ exc = "none"
        /\ InLog("info: user is in blacklist")
             \/ InLog("info: repo is in blacklist")

\* The part of C1 that the code keeps: no lookup and no delivery is ever
\* made for a blacklisted event, whatever else happens to it.
BlacklistedNeverLookedUpNorSent ==
    (file = "ok" /\ Blacklisted(event)) =>
        lookups = 0 /\ sent = << >> /\ rendered = << >>

LookupSucceeded == is_staff \in { "True", "False" }

Wanted ==
    IF is_staff = "True" /\ event_type \in staff_event_filter THEN "staff"
    ELSE IF is_staff = "False" /\ event_type \in external_event_filter
         THEN "external"
    ELSE "none"

\* C2 as stated: after a successful lookup, a delivery call goes to the
\* staff channel exactly when is_staff and the type is in the 9-element
\* staff whitelist, to the external channel exactly when not is_staff and
\* the type is in the 12-element external whitelist, and otherwise nowhere;
\* at most one delivery call per event.
C2_DeliveryExactlyWhenWhitelisted ==
    (Handled /\ LookupSucceeded) =>
        /\ Cardinality(staff_event_filter) = 9
        /\ Cardinality(external_event_filter) = 12
        /\ (sent = << "staff" >>) <=> (Wanted = "staff")
        /\ (sent = << "external" >>) <=> (Wanted = "external")
        /\ Wanted = "none" => sent = << >>
        /\ Len(sent) <= 1

\* C2 amended: after a successful lookup, the renderer is invoked for the
\* staff channel exactly when is_staff and the type is in the 9-element
\* staff whitelist, for the external channel exactly when not is_staff and
\* the type is in the 12-element external whitelist, and otherwise not at
\* all; the one delivery call to that channel is made exactly when the
\* renderer returned an embed, and none is made when it raised on a missing
\* nested payload field.  A staff PR_OPENED never goes to the external
\* channel and no event causes more than one delivery call.
C2_RoutingByStaffAndWhitelist ==
    (Handled /\ LookupSucceeded) =>
        /\ Cardinality(staff_event_filter) = 9
        /\ Cardinality(external_event_filter) = 12
        /\ Len(sent) <= 1
        /\ Len(rendered) <= 1
        /\ (Wanted = "none") <=> (rendered = << >>)
        /\ rendered # << >> => rendered[1].channel = Wanted
        /\ (sent # << >>) <=>
               (rendered # << >> /\ rendered[1].result = "embed")
        /\ sent # << >> => sent[1] = Wanted
        /\ (rendered # << >> /\ rendered[1].result # "embed") =>
               (~event.nested /\ exc = "KeyError: nested field")
        /\ (is_staff = "True" /\ event_type = "PR_OPENED") =>
               (sent \in { << >>, << "staff" >> }
                  /\ (event.nested => sent = << "staff" >>))

C2_Witness ==
    /\ Handled
    /\ is_staff = "True"
    /\ event_type = "PR_OPENED"
    /\ sent = << "staff" >>

LookupFailed ==
    /\ auth # NoAnswer
    /\ \/ auth.status \notin 200..299
       \/ /\ auth.status \in 200..299
          /\ auth.body \in { "no permission field", "not json" }

\* C3: when the lookup answers with a non-2xx status, or with a success
\* status and a body without a JSON 'permission' field, is_author_staff
\* raises: is_staff never gets a value, handling aborts, nothing is
\* rendered or delivered, and the failure is logged at top level with the
\* process exiting 0.
C3_FailedLookupAborts ==
    LookupFailed =>
        /\ is_staff = "unset"
        /\ pc \in { "raised", "exited" }
        /\ exc = "Exception: author permission request"
        /\ rendered = << >>
        /\ sent = << >>
        /\ pc = "exited" =>
               (InLog("error: can not handle event") /\ exit_code = 0)

C3_Witness ==
    /\ Handled
    /\ auth.status = 404
    /\ event_type = "PR_OPENED"
    /\ InLog("error: can not handle event")

\* C4: the process always exits 0: no failure of an invocation, reading and
\* parsing the payload file included, leaves the program uncaught.
C4_AlwaysExitsZero ==
    pc = "exited" => exit_code = 0

\* C5: get_event_type is total: whatever keys the payload has or lacks, the
\* call returns an EventType and never raises.
C5_ClassifyIsTotal ==
    (file = "ok" /\ pc \notin { "main", "get_event_type" }) =>
        (event_type \in EventType /\ exc # "KeyError: action")

\* The PR kinds of the enumeration, keyed by their action.
enumerated_pr_actions ==
    [ opened |-> "PR_OPENED", closed |-> "PR_CLOSED",
      reopened |-> "PR_REOPENED", edited |-> "PR_EDITED",
      assigned |-> "PR_ASSIGNED", unassigned |-> "PR_UNASSIGNED",
      review_requested |-> "PR_REVIEW_REQUESTED",
      review_request_removed |-> "PR_REVIEW_REQUEST_REMOVED",
      labeled |-> "PR_LABELED", unlabeled |-> "PR_UNLABELED",
      synchronize |-> "PR_SYNCHRONIZE",
      ready_for_review |-> "PR_READY_FOR_REVIEW",
      converted_to_draft |-> "PR_CONVERTED_TO_DRAFT",
      locked |-> "PR_LOCKED", unlocked |-> "PR_UNLOCKED",
      auto_merge_enabled |-> "PR_AUTO_MERGE_ENABLED",
      auto_merge_disabled |-> "PR_AUTO_MERGE_DISABLED",
      milestoned |-> "PR_MILESTONED", demilestoned |-> "PR_DEMILESTONED" ]

keyed(table, a) == IF a \in DOMAIN table THEN table[a] ELSE "UNKNOWN"

\* The ordered rule list of the classifier's contract, first match wins.
first_matching_rule(e) ==
    IF e.issue /\ e.comment # Absent
        THEN keyed(issue_comment_actions, e.action)
    ELSE IF e.issue THEN keyed(issue_actions, e.action)
    ELSE IF e.pull_request /\ e.comment # Absent
        THEN keyed(pr_review_comment_actions, e.action)
    ELSE IF e.pull_request /\ e.number
        THEN keyed(enumerated_pr_actions, e.action)
    ELSE IF e.pull_request /\ e.review
        THEN keyed(pr_review_actions, e.action)
    ELSE IF e.comment = "commit_id" /\ e.action = "created"
        THEN "COMMIT_COMMENT"
    ELSE "UNKNOWN"

\* C6: for a payload that carries an action, get_event_type returns what the
\* first matching rule of the ordered rule list gives, rule 4 covering every
\* PR action variant of the enumeration, and an action outside the matched
\* branch's list gives UNKNOWN without falling through.
C6_FirstMatchingRule ==
    (event_type # "unset" /\ event.action # NoAction) =>
        event_type = first_matching_rule(event)

\* C7: parse_event is never invoked with UNKNOWN and nothing is delivered
\* for an event classified UNKNOWN, which is in neither whitelist; such an
\* event has its warning logged.
C7_UnknownNeverRenderedNorSent ==
    /\ "UNKNOWN" \notin staff_event_filter \cup external_event_filter
    /\ \A i \in DOMAIN rendered : rendered[i].type # "UNKNOWN"
    /\ event_type = "UNKNOWN" =>
           /\ rendered = << >>
           /\ sent = << >>
           /\ InLog("warning: UNKNOWN event received")

C7_Witness ==
    /\ Handled
    /\ event_type = "UNKNOWN"
    /\ is_staff = "False"
    /\ InLog("info: skipped for external user")

FirstFailure ==
    LET bad == { i \in DOMAIN responses : responses[i] \notin { 200, 204 } }
    IN  IF bad = {} THEN 0 ELSE CHOOSE i \in bad : \A j \in bad : i <= j

\* C8: send_to_discord examines the responses in order; at the first one
\* whose status is not 200 or 204 it logs exactly one error and examines no
\* later response; it logs the success message if and only if every
\* response is 200 or 204; it never raises, so handling ends normally.
C8_FirstFailureStopsTheLoop ==
    responses # << >> =>
        /\ exc = "none"
        /\ pc \in { "loop", "returned", "exited" }
        /\ FirstFailure # 0 => examined <= FirstFailure
        /\ Count("error: executing webhook failed") =
               (IF FirstFailure # 0 /\ examined = FirstFailure THEN 1 ELSE 0)
        /\ Count("info: event sent to discord successfully") =
               (IF FirstFailure = 0 /\ pc # "loop" THEN 1 ELSE 0)
        /\ pc # "loop" =>
               examined = (IF FirstFailure = 0 THEN Len(responses)
                           ELSE FirstFailure)
        /\ pc = "exited" => exit_code = 0

C8_Witness ==
    /\ Handled
    /\ responses = << 500, 200 >>
    /\ examined = 1
    /\ Count("error: executing webhook failed") = 1
    /\ ~InLog("info: event sent to discord successfully")

GroupsOf(t) == { g \in DOMAIN EventTypeGroup : t \in EventTypeGroup[g] }

ExactlyOneGroup ==
    /\ Cardinality(DOMAIN EventTypeGroup) = 6
    /\ \A t \in EventType \ { "UNKNOWN" } : Cardinality(GroupsOf(t)) = 1
    /\ GroupsOf("UNKNOWN") = {}
    /\ \A i \in DOMAIN rendered :
           GroupsOf(rendered[i].type) = { template_of(rendered[i].type) }

\* C9 as stated: there are 46 concrete kinds besides UNKNOWN, each in
\* exactly one of the six group lists, UNKNOWN in none, so that the group
\* dispatch of parse_event selects exactly one template.
C9_FortySixKindsOneGroupEach ==
    Cardinality(EventType \ { "UNKNOWN" }) = 46 /\ ExactlyOneGroup

\* C9 amended: there are 45 concrete kinds besides UNKNOWN (46 values with
\* it), each in exactly one of the six group lists, UNKNOWN in none, so
\* that the group dispatch of parse_event selects exactly one template.
C9_FortyFiveKindsOneGroupEach ==
    Cardinality(EventType \ { "UNKNOWN" }) = 45 /\ ExactlyOneGroup

C9_Witness ==
    /\ rendered # << >>
    /\ rendered[1].type = "PR_REVIEW_SUBMITTED"
    /\ template_of(rendered[1].type) = "PULL_REQUEST_REVIEW"

\* The top-level keys each template needs.
needed_keys ==
    [ COMMIT_COMMENT              |-> { "comment", "commit_id" },
      ISSUE_COMMENT               |-> { "issue", "comment" },
      ISSUE                       |-> { "issue" },
      PULL_REQUEST                |-> { "pull_request" },
      PULL_REQUEST_REVIEW         |-> { "pull_request", "review" },
      PULL_REQUEST_REVIEW_COMMENT |-> { "pull_request", "comment" } ]

\* C10: whenever the renderer is reached, the type passed is the one
\* get_event_type returned for the payload, and the payload has every
\* top-level key the selected template reads, plus action, sender and
\* repository: rendering never fails on a missing top-level key.
C10_RenderedKeysPresent ==
    \A i \in DOMAIN rendered :
        LET t == rendered[i].type
            g == template_of(t)
        IN  /\ t = event_type
            /\ t = get_event_type(event)
            /\ g \in DOMAIN needed_keys
            /\ \A k \in needed_keys[g] \cup { "action", "sender", "repository" } :
                   has_key(event, k)
            /\ rendered[i].result # "KeyError: top-level key"

C10_Witness ==
    /\ rendered # << >>
    /\ rendered[1].type = "COMMIT_COMMENT"
    /\ rendered[1].result = "embed"
    /\ sent = << "external" >>

====
